---- MODULE Spec2Model ----
(***************************************************************************)
(* ArUco marker detection tools: aruco_detector.py (duplicate suppression, *)
(* parameter planning, dictionary search, the debug viewer's frame loop)   *)
(* and aruco_validator.py (the statistics loop of process_video).          *)
(*                                                                         *)
(* The OpenCV primitive detector (ArucoDetector.detectMarkers) is an       *)
(* external collaborator: what it returns for a (frame, dictionary) pair   *)
(* is part of the frame value, drawn from RawOutputs.                      *)
(***************************************************************************)
EXTENDS Integers, Sequences, FiniteSets, TLC

VARIABLES
    \* filter_duplicate_detections applied to one input
    fl_corners, fl_ids, fl_min, fl_keep, fl_out, fl_pc,
    \* calculate_detection_parameters applied to one input
    pl_width, pl_height, pl_out, pl_pc,
    \* find_first_marker / test_all_dictionaries applied to one input
    se_frame, se_dicts, se_out, se_pc,
    \* aruco_validator.process_video
    st_pc, st_args, st_frame_number, st_frames, st_summary, st_ids_list, st_error,
    \* aruco_detector.main
    mn_pc, mn_args, mn_read, mn_shown, mn_view, mn_debug_frames, mn_error

filterVars == <<fl_corners, fl_ids, fl_min, fl_keep, fl_out, fl_pc>>
planVars == <<pl_width, pl_height, pl_out, pl_pc>>
searchVars == <<se_frame, se_dicts, se_out, se_pc>>
statsVars ==
    <<st_pc, st_args, st_frame_number, st_frames, st_summary, st_ids_list, st_error>>
mainVars == <<mn_pc, mn_args, mn_read, mn_shown, mn_view, mn_debug_frames, mn_error>>
vars == <<filterVars, planVars, searchVars, statsVars, mainVars>>

(***************************************************************************)
(* Bounds of the model.                                                    *)
(***************************************************************************)
\* longest accepted-candidate list handed to the duplicate filter
MaxCands == 3
\* how many of ARUCO_DICTS' dictionaries can decode anything in a frame
MaxDicts == 3
\* frames a video source yields at most
MaxFrames == 3

(***************************************************************************)
(* Python values.                                                          *)
(***************************************************************************)
\* Python's None where an id array is expected (marker ids are >= 0)
None == <<-1>>

Abs(x) == IF x < 0 THEN -x ELSE x

Max2(a, b) == IF a >= b THEN a ELSE b

Min2(a, b) == IF a <= b THEN a ELSE b

\* int(n / d) for the float n/d: Python's int() truncates toward zero
TruncDiv(n, d) == IF n >= 0 THEN n \div d ELSE -((-n) \div d)

RECURSIVE SumSeq(_)
SumSeq(s) == IF s = <<>> THEN 0 ELSE Head(s) + SumSeq(Tail(s))

SeqsUpTo(S, n) == UNION {[1..k -> S] : k \in 0..n}

Range(s) == {s[k] : k \in 1..Len(s)}

(***************************************************************************)
(* Geometry of a candidate: corner[0] is four points (x, y).  The inputs   *)
(* of the model are axis-parallel squares with integer corners, so every   *)
(* side length is an integer and no square root is needed.                 *)
(***************************************************************************)
Quad(cx, cy, r) ==
    << <<cx - r, cy - r>>, <<cx + r, cy - r>>, <<cx + r, cy + r>>, <<cx - r, cy + r>> >>

\* np.mean(corner[0], axis=0), kept as the sum of the four points (4 * mean)
CenterSum(q) ==
    << q[1][1] + q[2][1] + q[3][1] + q[4][1], q[1][2] + q[2][2] + q[3][2] + q[4][2] >>

\* np.linalg.norm(centers[i] - centers[j]) < min_distance, on the 4-fold sums
DistLess(q1, q2, min_distance) ==
    LET dx == CenterSum(q1)[1] - CenterSum(q2)[1]
        dy == CenterSum(q1)[2] - CenterSum(q2)[2]
    IN dx * dx + dy * dy < (4 * min_distance) * (4 * min_distance)

\* length of one side; the sides of the model's inputs are axis-parallel
EdgeLen(p, q) == Abs(p[1] - q[1]) + Abs(p[2] - q[2])

\* cv2.arcLength(corner[0], True): the closed polygon's perimeter
arcLength(q) == SumSeq([k \in 1..4 |-> EdgeLen(q[k], q[(k % 4) + 1])])

(***************************************************************************)
(* filter_duplicate_detections                                             *)
(***************************************************************************)
KeepsFirstTieToFirst(perimeter1, perimeter2) == perimeter1 >= perimeter2

KeepsFirstSmaller(perimeter1, perimeter2) == perimeter1 < perimeter2

\* `if perimeter1 > perimeter2`: candidate i stays and j is dropped
KeepsFirst(perimeter1, perimeter2) == perimeter1 > perimeter2

\* the body of `for j in range(i + 1, len(ids))`, from j on; a `break` ends it
RECURSIVE InnerLoop(_, _, _, _, _)
InnerLoop(corners, keep, i, j, min_distance) ==
    IF j > Len(corners) THEN keep
    ELSE IF ~keep[j] THEN InnerLoop(corners, keep, i, j + 1, min_distance)
    ELSE IF DistLess(corners[i], corners[j], min_distance)
         THEN IF KeepsFirst(arcLength(corners[i]), arcLength(corners[j]))
              THEN InnerLoop(corners, [keep EXCEPT ![j] = FALSE], i, j + 1, min_distance)
              ELSE [keep EXCEPT ![i] = FALSE]
         ELSE InnerLoop(corners, keep, i, j + 1, min_distance)

\* the body of `for i in range(len(ids))`, from i on
RECURSIVE OuterLoop(_, _, _, _)
OuterLoop(corners, keep, i, min_distance) ==
    IF i > Len(corners) THEN keep
    ELSE IF ~keep[i] THEN OuterLoop(corners, keep, i + 1, min_distance)
    ELSE OuterLoop(corners, InnerLoop(corners, keep, i, i + 1, min_distance),
                   i + 1, min_distance)

\* the keep mask after both loops, starting from np.ones(len(ids))
KeepMask(corners, min_distance) ==
    OuterLoop(corners, [k \in 1..Len(corners) |-> TRUE], 1, min_distance)

SelectAll(s, keep, k) == SubSeq(s, k, Len(s))

SelectDropped(s, keep, k) ==
    LET F[i \in 0..Len(s)] ==
            IF i = 0 THEN <<>>
            ELSE IF i >= k /\ ~keep[i] THEN Append(F[i - 1], s[i])
            ELSE F[i - 1]
    IN F[Len(s)]

\* s[keep] / [s[i] for i in range(len(s)) if keep[i]]
RECURSIVE SelectKept(_, _, _)
SelectKept(s, keep, k) ==
    IF k > Len(s) THEN <<>>
    ELSE IF keep[k] THEN <<s[k]>> \o SelectKept(s, keep, k + 1)
    ELSE SelectKept(s, keep, k + 1)

filter_duplicate_detections(corners, ids, min_distance) ==
    IF ids = None \/ Len(ids) = 0
    THEN [corners |-> corners, ids |-> ids]
    ELSE LET keep == KeepMask(corners, min_distance)
         IN [corners |-> SelectKept(corners, keep, 1), ids |-> SelectKept(ids, keep, 1)]

(***************************************************************************)
(* calculate_detection_parameters.  m * 0.01 and m * 0.03 * 0.02 are       *)
(* floats; int() of them equals the truncated integer quotients below for  *)
(* every m in the model's range.  The function has no raise statement:     *)
(* error is "none" for every input.                                        *)
(***************************************************************************)
PlanParametersByMax(frame_width, frame_height) ==
    LET m == Max2(frame_width, frame_height)
        base_window_size == Max2(7, TruncDiv(m, 100))
    IN [error |-> "none",
        adaptiveThreshWinSizeMin |-> base_window_size,
        adaptiveThreshWinSizeMax |-> base_window_size * 3,
        adaptiveThreshWinSizeStep |-> Max2(2, base_window_size \div 3),
        adaptiveThreshConstant |-> 7,
        minDistanceToBorder |-> Max2(3, TruncDiv(m * 6, 10000)),
        perspectiveRemovePixelPerCell |-> 8]

\* the whole body: lines 119-150 compute the parameter set from the dimensions
PlanParameters(frame_width, frame_height) ==
    LET m == Min2(frame_width, frame_height)
        base_window_size == Max2(7, TruncDiv(m, 100))
    IN [error |-> "none",
        adaptiveThreshWinSizeMin |-> base_window_size,
        adaptiveThreshWinSizeMax |-> base_window_size * 3,
        adaptiveThreshWinSizeStep |-> Max2(2, base_window_size \div 3),
        adaptiveThreshConstant |-> 7,
        minDistanceToBorder |-> Max2(3, TruncDiv(m * 6, 10000)),
        perspectiveRemovePixelPerCell |-> 8]

PlanValidated(frame_width, frame_height) ==
    IF frame_width <= 0 \/ frame_height <= 0
    THEN [error |-> "InvalidFrame"]
    ELSE PlanParameters(frame_width, frame_height)

\* the call: nothing checks the dimensions before the computation
calculate_detection_parameters(frame_width, frame_height) ==
    PlanParameters(frame_width, frame_height)

(***************************************************************************)
(* Dictionaries and frames.                                                *)
(***************************************************************************)
\* main's ARUCO_DICTS, in insertion order
ARUCO_DICTS ==
    << "DICT_4X4_50", "DICT_4X4_100", "DICT_4X4_250", "DICT_4X4_1000",
       "DICT_5X5_50", "DICT_5X5_100", "DICT_5X5_250", "DICT_5X5_1000",
       "DICT_6X6_50", "DICT_6X6_100", "DICT_6X6_250", "DICT_6X6_1000",
       "DICT_7X7_50", "DICT_7X7_100", "DICT_7X7_250", "DICT_7X7_1000",
       "DICT_ARUCO_ORIGINAL" >>

\* process_video's ARUCO_DICT
ARUCO_DICT ==
    { "DICT_4X4_50", "DICT_4X4_100", "DICT_5X5_50", "DICT_5X5_100",
      "DICT_6X6_50", "DICT_6X6_100", "DICT_6X6_250", "DICT_7X7_50",
      "DICT_7X7_100", "DICT_ARUCO_ORIGINAL" }

\* the dictionaries under which a frame of the model can decode anything
ActiveDicts == {ARUCO_DICTS[k] : k \in 1..Min2(MaxDicts, Len(ARUCO_DICTS))}

\* what detector.detectMarkers can return for one (frame, dictionary):
\* nothing at all (OpenCV's ids is None), rejected candidates only, an empty
\* id array (the contract the specification's section 6 states), one marker, and two
\* detections of one marker 7.07 px apart
RawNone == [corners |-> <<>>, ids |-> None, rejected |-> <<>>]

RawRejected == [corners |-> <<>>, ids |-> None, rejected |-> <<Quad(50, 50, 2)>>]

RawEmpty == [corners |-> <<>>, ids |-> <<>>, rejected |-> <<>>]

RawOne == [corners |-> <<Quad(0, 0, 3)>>, ids |-> <<1>>, rejected |-> <<>>]

RawClosePair ==
    [corners |-> <<Quad(0, 0, 2), Quad(5, 5, 3)>>, ids |-> <<4, 4>>, rejected |-> <<>>]

RawOutputs == {RawNone, RawRejected, RawEmpty, RawOne, RawClosePair}

\* frame.shape[:2], as (width, height)
FrameSizes == {<<640, 480>>, <<1920, 1080>>}

\* a frame: its size, and what the primitive detector returns on it per
\* dictionary (nothing under the dictionaries outside ActiveDicts)
Frames ==
    {[width |-> sz[1], height |-> sz[2],
      raw |-> [d \in Range(ARUCO_DICTS) |-> IF d \in ActiveDicts THEN f[d] ELSE RawNone]] :
        sz \in FrameSizes, f \in [ActiveDicts -> RawOutputs]}

(***************************************************************************)
(* detect_markers_with_params                                              *)
(***************************************************************************)
\* `if corners and ids is not None`
ShouldFilter(corners, ids) == Len(corners) > 0 /\ ids # None

detect_markers_with_params(frame, dictionary) ==
    LET parameters == calculate_detection_parameters(frame.width, frame.height)
        det == frame.raw[dictionary]
        min_distance == Max2(20, TruncDiv(Min2(frame.width, frame.height) * 2, 100))
        filtered == IF ShouldFilter(det.corners, det.ids)
                    THEN filter_duplicate_detections(det.corners, det.ids, min_distance)
                    ELSE [corners |-> det.corners, ids |-> det.ids]
    IN [corners |-> filtered.corners, ids |-> filtered.ids, rejected |-> det.rejected]

(***************************************************************************)
(* Colours and views.                                                      *)
(***************************************************************************)
colors ==
    << <<0, 255, 0>>, <<255, 0, 0>>, <<0, 0, 255>>,
       <<255, 255, 0>>, <<255, 0, 255>>, <<0, 255, 255>> >>

\* get_debug_color: dict_index counts from 0
get_debug_color(dict_index) == colors[(dict_index % Len(colors)) + 1]

\* create_debug_visualization: what is drawn on the dictionary's debug frame
create_debug_visualization(det, dict_name, dict_index) ==
    [dict_name |-> dict_name,
     color |-> get_debug_color(dict_index),
     markers_drawn |-> det.ids # None,
     rejected_drawn |-> Len(det.rejected) > 0]

(***************************************************************************)
(* test_all_dictionaries and find_first_marker.  calls lists, in order,    *)
(* the dictionaries the primitive detector was invoked with.               *)
(***************************************************************************)
IsHitNotNone(ids) == ids # None

\* `if ids is not None and len(ids) > 0`
IsHit(ids) == ids # None /\ Len(ids) > 0

RECURSIVE TestAllFrom(_, _, _, _)
TestAllFrom(frame, dictionaries, k, acc) ==
    IF k > Len(dictionaries) THEN acc
    ELSE LET dict_name == dictionaries[k]
             det == detect_markers_with_params(frame, dict_name)
             debug_frame == create_debug_visualization(det, dict_name, k - 1)
         IN TestAllFrom(frame, dictionaries, k + 1,
                [results |-> IF IsHit(det.ids)
                             THEN Append(acc.results,
                                         [dict_name |-> dict_name,
                                          corners |-> det.corners, ids |-> det.ids])
                             ELSE acc.results,
                 debug_frames |-> Append(acc.debug_frames, debug_frame),
                 calls |-> Append(acc.calls, dict_name)])

test_all_dictionaries(frame, dictionaries) ==
    TestAllFrom(frame, dictionaries, 1,
                [results |-> <<>>, debug_frames |-> <<>>, calls |-> <<>>])

FindFirstNoReturn(det, dict_name, calls) == FALSE

\* the early `return corners, ids, dict_name, dictionary`
FindFirstReturns(det, dict_name, calls) == IsHit(det.ids)

RECURSIVE FindFirstFrom(_, _, _, _)
FindFirstFrom(frame, dictionaries, k, calls) ==
    IF k > Len(dictionaries)
    THEN [corners |-> None, ids |-> None, dict_name |-> "None", calls |-> calls]
    ELSE LET dict_name == dictionaries[k]
             det == detect_markers_with_params(frame, dict_name)
             called == Append(calls, dict_name)
         IN IF FindFirstReturns(det, dict_name, called)
            THEN [corners |-> det.corners, ids |-> det.ids,
                  dict_name |-> dict_name, calls |-> called]
            ELSE FindFirstFrom(frame, dictionaries, k + 1, called)

find_first_marker(frame, dictionaries) == FindFirstFrom(frame, dictionaries, 1, <<>>)

(***************************************************************************)
(* State of the parts a specification leaves alone.                        *)
(***************************************************************************)
FilterIdle ==
    /\ fl_pc = "idle" /\ fl_corners = <<>> /\ fl_ids = <<>> /\ fl_min = 0
    /\ fl_keep = <<>> /\ fl_out = [corners |-> <<>>, ids |-> <<>>]

PlanIdle == pl_pc = "idle" /\ pl_width = 0 /\ pl_height = 0 /\ pl_out = [error |-> "none"]

SearchIdle ==
    /\ se_pc = "idle" /\ se_dicts = <<>> /\ se_out = [calls |-> <<>>]
    /\ se_frame = [width |-> 0, height |-> 0]

(***************************************************************************)
(* filter_duplicate_detections on every accepted list of up to MaxCands    *)
(* candidates: squares centred on the diagonal at 0, 5, 10 and 100 with    *)
(* side 4 or 6, and the two thresholds 10 (the default) and 20 (the least  *)
(* detect_markers_with_params passes).                                     *)
(***************************************************************************)
Cands ==
    { [corners |-> Quad(0, 0, 2), id |-> 1], [corners |-> Quad(0, 0, 3), id |-> 1],
      [corners |-> Quad(5, 5, 2), id |-> 1], [corners |-> Quad(5, 5, 3), id |-> 2],
      [corners |-> Quad(10, 10, 2), id |-> 2], [corners |-> Quad(10, 10, 3), id |-> 3],
      [corners |-> Quad(100, 100, 2), id |-> 3], [corners |-> Quad(100, 100, 3), id |-> 1] }

MinDistances == {10, 20}

FilterInit ==
    /\ fl_pc = "call"
    /\ fl_min \in MinDistances
    /\ \/ \E s \in SeqsUpTo(Cands, MaxCands) :
             /\ fl_corners = [k \in 1..Len(s) |-> s[k].corners]
             /\ fl_ids = [k \in 1..Len(s) |-> s[k].id]
       \/ fl_corners = <<>> /\ fl_ids = None
    /\ fl_keep = <<>>
    /\ fl_out = [corners |-> <<>>, ids |-> <<>>]

FilterCall ==
    /\ fl_pc = "call"
    /\ fl_out' = filter_duplicate_detections(fl_corners, fl_ids, fl_min)
    /\ fl_keep' = IF fl_ids = None THEN <<>> ELSE KeepMask(fl_corners, fl_min)
    /\ fl_pc' = "done"
    /\ UNCHANGED <<fl_corners, fl_ids, fl_min, planVars, searchVars, statsVars, mainVars>>

(***************************************************************************)
(* calculate_detection_parameters on dimensions of every sign.             *)
(***************************************************************************)
Dimensions == {-150, 0, 1, 100, 480, 1000, 1080, 8000}

PlanInit ==
    /\ pl_pc = "call"
    /\ pl_width \in Dimensions
    /\ pl_height \in Dimensions
    /\ pl_out = [error |-> "none"]

PlanCall ==
    /\ pl_pc = "call"
    /\ pl_out' = calculate_detection_parameters(pl_width, pl_height)
    /\ pl_pc' = "done"
    /\ UNCHANGED <<pl_width, pl_height, filterVars, searchVars, statsVars, mainVars>>

(***************************************************************************)
(* find_first_marker and test_all_dictionaries on every frame and every    *)
(* ordered collection of distinct dictionaries among ActiveDicts.          *)
(***************************************************************************)
DictOrders ==
    {s \in SeqsUpTo(ActiveDicts, Cardinality(ActiveDicts)) :
        \A a, b \in 1..Len(s) : a # b => s[a] # s[b]}

SearchInit ==
    /\ se_pc = "call"
    /\ se_frame \in Frames
    /\ se_dicts \in DictOrders
    /\ se_out = [calls |-> <<>>]

CallFindFirst ==
    /\ se_pc = "call"
    /\ se_out' = find_first_marker(se_frame, se_dicts)
    /\ se_pc' = "first"
    /\ UNCHANGED <<se_frame, se_dicts, filterVars, planVars, statsVars, mainVars>>

CallTestAll ==
    /\ se_pc = "call"
    /\ se_out' = test_all_dictionaries(se_frame, se_dicts)
    /\ se_pc' = "all"
    /\ UNCHANGED <<se_frame, se_dicts, filterVars, planVars, statsVars, mainVars>>

(***************************************************************************)
(* aruco_validator.process_video: the statistics loop.                     *)
(***************************************************************************)
\* what detector.detectMarkers(gray) can return for one frame
StatsDetections ==
    { RawNone, RawRejected, RawEmpty, RawOne,
      [corners |-> <<Quad(0, 0, 2), Quad(100, 100, 3)>>, ids |-> <<8, 1>>,
       rejected |-> <<>>] }

\* video.get(cv2.CAP_PROP_FPS): a container can report 0
FpsValues == {0, 30}

StatsArgs ==
    [dictionary_name : {"DICT_6X6_250", "DICT_BOGUS"}, show_video : BOOLEAN,
     opens : BOOLEAN, fps : FpsValues]

EmptySummary ==
    [total_frames |-> 0, frames_with_markers |-> 0, total_markers_detected |-> 0,
     marker_ids_found |-> {}]

StatsIdle ==
    /\ st_pc = "idle" /\ st_args = [dictionary_name |-> "None"] /\ st_frame_number = 0
    /\ st_frames = <<>> /\ st_summary = EmptySummary /\ st_ids_list = <<>>
    /\ st_error = "none"

StatsInit ==
    /\ st_pc = "start"
    /\ st_args \in StatsArgs
    /\ st_frame_number = 0
    /\ st_frames = <<>>
    /\ st_summary = EmptySummary
    /\ st_ids_list = <<>>
    /\ st_error = "none"

\* lines 33-99: the dictionary lookup, then the video is opened
StatsStart ==
    /\ st_pc = "start"
    /\ IF st_args.dictionary_name \notin ARUCO_DICT
       THEN st_pc' = "raised" /\ st_error' = "ValueError: dictionary not found"
       ELSE IF ~st_args.opens
            THEN st_pc' = "raised" /\ st_error' = "ValueError: could not open"
            ELSE st_pc' = "loop" /\ st_error' = st_error
    /\ UNCHANGED <<st_args, st_frame_number, st_frames, st_summary, st_ids_list>>
    /\ UNCHANGED <<filterVars, planVars, searchVars, mainVars>>

\* `if ids is not None`
CountsFrame(ids) == ids # None

FoundOnlyLatest(found, ids) == Range(ids)

\* marker_ids_found.update(int(id_) for id_ in ids.flatten())
UpdateFound(found, ids) == found \cup Range(ids)

\* lines 153-187: the summary and the frame's record after one detection
Observe(summary, frame_number, det) ==
    IF CountsFrame(det.ids)
    THEN [total_frames |-> frame_number,
          frames_with_markers |-> summary.frames_with_markers + 1,
          total_markers_detected |-> summary.total_markers_detected + Len(det.ids),
          marker_ids_found |-> UpdateFound(summary.marker_ids_found, det.ids)]
    ELSE [summary EXCEPT !.total_frames = frame_number]

markers_detected(det) ==
    IF CountsFrame(det.ids)
    THEN [k \in 1..Min2(Len(det.corners), Len(det.ids)) |->
             [id |-> det.ids[k], corners |-> det.corners[k]]]
    ELSE <<>>

\* list(marker_ids_found): a set's iteration order is whatever the hash table
\* gives (CPython: list({1, 8}) == [8, 1]); every order is a possible outcome
ListOfSet(found) == {s \in [1..Cardinality(found) -> found] : Range(s) = found}

\* one pass of `while True` with a frame read: lines 101-210; leaving by the
\* quit key runs the clean-up and the list conversion (lines 212-220)
StatsFrame ==
    /\ st_pc = "loop"
    /\ st_frame_number < MaxFrames
    /\ \E det \in StatsDetections, key \in {"q", "other"} :
        LET frame_number == st_frame_number + 1
            summary == Observe(st_summary, frame_number, det)
        IN IF st_args.fps = 0
           THEN \* frame_number / fps
                /\ st_pc' = "raised"
                /\ st_error' = "ZeroDivisionError"
                /\ st_frame_number' = frame_number
                /\ UNCHANGED <<st_frames, st_summary, st_ids_list>>
           ELSE /\ st_frame_number' = frame_number
                /\ st_frames' = Append(st_frames,
                       [frame_number |-> frame_number,
                        markers_detected |-> markers_detected(det)])
                /\ st_summary' = summary
                /\ st_error' = st_error
                /\ IF st_args.show_video /\ key = "q"
                   THEN /\ st_pc' = "returned"
                        /\ st_ids_list' \in ListOfSet(summary.marker_ids_found)
                   ELSE /\ st_pc' = "loop"
                        /\ st_ids_list' = st_ids_list
    /\ UNCHANGED <<st_args, filterVars, planVars, searchVars, mainVars>>

\* video.read() fails: break, clean-up, list conversion, return
StatsEndOfStream ==
    /\ st_pc = "loop"
    /\ st_pc' = "returned"
    /\ st_ids_list' \in ListOfSet(st_summary.marker_ids_found)
    /\ UNCHANGED <<st_args, st_frame_number, st_frames, st_summary, st_error>>
    /\ UNCHANGED <<filterVars, planVars, searchVars, mainVars>>

(***************************************************************************)
(* aruco_detector.create_side_by_side_view: what is drawn on the combined  *)
(* view.  all_results = <<>> stands for both None and the empty list (both *)
(* fail `if all_results`).                                                 *)
(***************************************************************************)
\* drawDetectedMarkers' default border colour, and the label colour
Green == <<0, 255, 0>>

\* `for idx, ... in enumerate(all_results): color = get_debug_color(idx)`
ResultColor(all_results, idx) == get_debug_color(idx - 1)

create_side_by_side_view(corners, ids, dict_name, all_results) ==
    LET shown(r) == r.ids # None /\ Len(r.ids) > 0
        entries == [idx \in 1..Len(all_results) |->
                       [dict_name |-> all_results[idx].dict_name,
                        count |-> Len(all_results[idx].ids),
                        color |-> ResultColor(all_results, idx),
                        ids |-> all_results[idx].ids]]
    IN [bound |-> TRUE,
        draws |-> IF Len(all_results) > 0
                  THEN SelectSeq(entries, LAMBDA e : e.ids # None)
                  ELSE IF ids # None
                       THEN <<[dict_name |-> dict_name, count |-> Len(ids),
                               color |-> Green, ids |-> ids]>>
                       ELSE <<>>,
        labels |-> IF Len(all_results) > 0
                   THEN SelectSeq(entries, shown)
                   ELSE IF ids # None
                        THEN <<[dict_name |-> dict_name, count |-> Len(ids),
                                color |-> Green, ids |-> ids]>>
                        ELSE <<>>,
        no_markers |-> Len(all_results) = 0 /\ ids = None,
        sizes |-> IF ids # None /\ Len(corners) > 0
                  THEN [i \in 1..Len(corners) |-> arcLength(corners[i])]
                  ELSE <<>>]

\* debug_view before its first assignment
UnboundView ==
    [bound |-> FALSE, draws |-> <<>>, labels |-> <<>>, no_markers |-> FALSE,
     sizes |-> <<>>]

(***************************************************************************)
(* aruco_detector.main                                                     *)
(***************************************************************************)
\* args.dict ("None": not given) and args.test_all
MainArgs ==
    [dict : {"None", "DICT_4X4_50", "DICT_4X4_100", "DICT_BOGUS"},
     test_all : BOOLEAN, opens : BOOLEAN]

MainIdle ==
    /\ mn_pc = "idle" /\ mn_args = [dict |-> "None"] /\ mn_read = 0 /\ mn_shown = 0
    /\ mn_view = UnboundView /\ mn_debug_frames = <<>> /\ mn_error = "none"

MainInit ==
    /\ mn_pc = "start"
    /\ mn_args \in MainArgs
    /\ mn_read = 0
    /\ mn_shown = 0
    /\ mn_view = UnboundView
    /\ mn_debug_frames = <<>>
    /\ mn_error = "none"

\* lines 321-328: the capture is opened; nothing looks at args.dict here
MainOpen ==
    /\ mn_pc = "start"
    /\ IF mn_args.opens
       THEN mn_pc' = "loop" /\ mn_error' = mn_error
       ELSE mn_pc' = "exit1" /\ mn_error' = "could not open video"
    /\ UNCHANGED <<mn_args, mn_read, mn_shown, mn_view, mn_debug_frames>>
    /\ UNCHANGED <<filterVars, planVars, searchVars, statsVars>>

\* lines 335-355: the view the pass builds, or the exit it takes
FrameOutcome(args, frame, view, debug_frames) ==
    IF args.dict # "None"
    THEN IF args.dict \notin Range(ARUCO_DICTS)
         THEN [exit |-> TRUE, view |-> view, debug_frames |-> debug_frames]
         ELSE LET det == detect_markers_with_params(frame, args.dict)
              IN [exit |-> FALSE,
                  view |-> create_side_by_side_view(det.corners, det.ids, args.dict, <<>>),
                  debug_frames |-> debug_frames]
    ELSE IF args.test_all
         THEN LET all == test_all_dictionaries(frame, ARUCO_DICTS)
              IN [exit |-> FALSE,
                  view |-> create_side_by_side_view(None, None, "None", all.results),
                  debug_frames |-> all.debug_frames]
         ELSE [exit |-> FALSE, view |-> view, debug_frames |-> debug_frames]

\* one pass of `while True` with a frame read: lines 331-362
MainFrame ==
    /\ mn_pc = "loop"
    /\ mn_read < MaxFrames
    /\ \E frame \in Frames :
        LET out == FrameOutcome(mn_args, frame, mn_view, mn_debug_frames)
        IN /\ mn_read' = mn_read + 1
           /\ mn_view' = out.view
           /\ mn_debug_frames' = out.debug_frames
           /\ IF out.exit
              THEN \* sys.exit(1) after the two print calls
                   /\ mn_pc' = "exit1"
                   /\ mn_error' = "Unknown dictionary"
                   /\ mn_shown' = mn_shown
              ELSE IF ~out.view.bound
                   THEN \* cv2.imshow(..., debug_view) reads an unassigned local
                        /\ mn_pc' = "raised"
                        /\ mn_error' = "UnboundLocalError"
                        /\ mn_shown' = mn_shown
                   ELSE /\ mn_shown' = mn_shown + 1
                        /\ mn_error' = mn_error
                        /\ \E key \in {"q", "other"} :
                               mn_pc' = IF key = "q" THEN "exit0" ELSE "loop"
    /\ UNCHANGED <<mn_args, filterVars, planVars, searchVars, statsVars>>

\* cap.read() fails: break, release, return
MainEndOfStream ==
    /\ mn_pc = "loop"
    /\ mn_pc' = "exit0"
    /\ UNCHANGED <<mn_args, mn_read, mn_shown, mn_view, mn_debug_frames, mn_error>>
    /\ UNCHANGED <<filterVars, planVars, searchVars, statsVars>>

(***************************************************************************)
(* Specifications: one per part of the program.                            *)
(***************************************************************************)
InitFilter == FilterInit /\ PlanIdle /\ SearchIdle /\ StatsIdle /\ MainIdle

NextFilter == FilterCall

SpecFilter == InitFilter /\ [][NextFilter]_vars

InitPlan == FilterIdle /\ PlanInit /\ SearchIdle /\ StatsIdle /\ MainIdle

NextPlan == PlanCall

SpecPlan == InitPlan /\ [][NextPlan]_vars

InitSearch == FilterIdle /\ PlanIdle /\ SearchInit /\ StatsIdle /\ MainIdle

NextSearch == CallFindFirst \/ CallTestAll

SpecSearch == InitSearch /\ [][NextSearch]_vars

InitStats == FilterIdle /\ PlanIdle /\ SearchIdle /\ StatsInit /\ MainIdle

NextStats == StatsStart \/ StatsFrame \/ StatsEndOfStream

SpecStats == InitStats /\ [][NextStats]_vars

InitMain == FilterIdle /\ PlanIdle /\ SearchIdle /\ StatsIdle /\ MainInit

NextMain == MainOpen \/ MainFrame \/ MainEndOfStream

SpecMain == InitMain /\ [][NextMain]_vars

\* the whole program: any one of its parts, started and run
Init == InitFilter \/ InitPlan \/ InitSearch \/ InitStats \/ InitMain

Next == NextFilter \/ NextPlan \/ NextSearch \/ NextStats \/ NextMain

Spec == Init /\ [][Next]_vars

(***************************************************************************)
(* Dictionary search: C1, C2                                               *)
(***************************************************************************)
\* positions of se_dicts whose accepted set is non-empty after suppression
HitPositions ==
    {k \in 1..Len(se_dicts) :
        LET det == detect_markers_with_params(se_frame, se_dicts[k])
        IN det.ids # None /\ Len(det.ids) > 0}

FirstHit == CHOOSE k \in HitPositions : \A h \in HitPositions : k <= h

\* C1: find_first_marker returns the detection of the earliest dictionary, in
\* the caller's order, whose filtered accepted set is non-empty, and has invoked
\* the primitive detector on exactly the dictionaries up to and including that
\* one, in order; with no hit it has tried every dictionary and returns None.
C1_FirstMatchShortCircuit ==
    se_pc = "first" =>
        IF HitPositions = {}
        THEN /\ se_out.dict_name = "None"
             /\ se_out.ids = None
             /\ se_out.calls = se_dicts
        ELSE LET det == detect_markers_with_params(se_frame, se_dicts[FirstHit])
             IN /\ se_out.dict_name = se_dicts[FirstHit]
                /\ se_out.ids = det.ids
                /\ se_out.corners = det.corners
                /\ se_out.calls = SubSeq(se_dicts, 1, FirstHit)
                /\ Len(se_out.calls) = FirstHit

\* three dictionaries, only the 2nd hits: two invocations, the 2nd is returned
C1_Witness ==
    /\ se_pc = "first"
    /\ Len(se_dicts) = 3
    /\ HitPositions = {2}
    /\ Len(se_out.calls) = 2
    /\ se_out.dict_name = se_dicts[2]

\* the dictionaries of se_dicts with a hit, in the caller's order
HitDicts ==
    SelectSeq(se_dicts,
              LAMBDA d : LET det == detect_markers_with_params(se_frame, d)
                         IN det.ids # None /\ Len(det.ids) > 0)

\* C2: test_all_dictionaries invokes the primitive detector once per
\* dictionary, in the caller's order, hits or not, and returns one result per
\* dictionary with an accepted detection after suppression, in that order,
\* each holding that dictionary's filtered detection.
C2_ExhaustiveComplete ==
    se_pc = "all" =>
        /\ se_out.calls = se_dicts
        /\ Len(se_out.results) = Len(HitDicts)
        /\ \A k \in 1..Len(se_out.results) :
              LET det == detect_markers_with_params(se_frame, HitDicts[k])
              IN /\ se_out.results[k].dict_name = HitDicts[k]
                 /\ se_out.results[k].ids = det.ids
                 /\ se_out.results[k].corners = det.corners

\* three dictionaries, the 1st and 3rd hit, the 2nd yields an empty id array
C2_Witness ==
    /\ se_pc = "all"
    /\ Len(se_dicts) = 3
    /\ HitPositions = {1, 3}
    /\ se_frame.raw[se_dicts[2]] = RawEmpty
    /\ Len(se_out.calls) = 3
    /\ Len(se_out.results) = 2
    /\ se_out.results[2].dict_name = se_dicts[3]

(***************************************************************************)
(* Duplicate suppression: C3, C4                                           *)
(***************************************************************************)
Filtered == fl_pc = "done" /\ fl_ids # None

Close(i, j) == DistLess(fl_corners[i], fl_corners[j], fl_min)

Perim(i) == arcLength(fl_corners[i])

TiedPairs ==
    {p \in (1..Len(fl_corners)) \X (1..Len(fl_corners)) :
        p[1] < p[2] /\ Close(p[1], p[2]) /\ Perim(p[1]) = Perim(p[2])}

\* C3 as stated: of two close candidates i < j with equal perimeters, the
\* lower-index i is kept and j is discarded.
C3_TieKeepsLowerIndex ==
    Filtered => \A p \in TiedPairs : fl_keep[p[1]] /\ ~fl_keep[p[2]]

\* C3 amended: of two close candidates i < j with equal perimeters the
\* lower-index i never wins: i survives only if an earlier candidate k < i with
\* a strictly larger perimeter had already discarded j; otherwise i is
\* discarded (and with just the two candidates, exactly j survives).
C3_TieDropsLowerIndex ==
    Filtered =>
        /\ \A p \in TiedPairs :
              fl_keep[p[1]] =>
                  /\ ~fl_keep[p[2]]
                  /\ \E k \in 1..(p[1] - 1) : Close(k, p[2]) /\ Perim(k) > Perim(p[2])
        /\ (Len(fl_corners) = 2 /\ TiedPairs # {}) =>
              /\ fl_keep = <<FALSE, TRUE>>
              /\ fl_out.corners = <<fl_corners[2]>>
              /\ fl_out.ids = <<fl_ids[2]>>

C3_Witness ==
    /\ Filtered
    /\ Len(fl_corners) = 2
    /\ TiedPairs = {<<1, 2>>}
    /\ fl_corners[1] # fl_corners[2]
    /\ fl_keep = <<FALSE, TRUE>>

Isolated(i) == \A j \in 1..Len(fl_corners) : j # i => ~Close(i, j)

\* C4: a candidate at least min_distance from every other one is kept; of two
\* close candidates with different perimeters that are close to no third one,
\* exactly the larger survives; centroids (0,0), (5,5), (100,100) with
\* min_distance 10 leave exactly 2 accepted entries.
C4_SuppressionCorrect ==
    Filtered =>
        /\ \A i \in 1..Len(fl_corners) : Isolated(i) => fl_keep[i]
        /\ \A i, j \in 1..Len(fl_corners) :
              ( /\ i # j /\ Close(i, j) /\ Perim(i) > Perim(j)
                /\ \A k \in 1..Len(fl_corners) \ {i, j} : ~Close(i, k) /\ ~Close(j, k) )
              => fl_keep[i] /\ ~fl_keep[j]
        /\ Len(fl_out.corners) = Cardinality({i \in 1..Len(fl_corners) : fl_keep[i]})
        /\ Len(fl_out.ids) = Len(fl_out.corners)
        /\ ( /\ Len(fl_corners) = 3 /\ fl_min = 10
             /\ CenterSum(fl_corners[1]) = <<0, 0>>
             /\ CenterSum(fl_corners[2]) = <<20, 20>>
             /\ CenterSum(fl_corners[3]) = <<400, 400>> )
           => Len(fl_out.ids) = 2

\* (0,0) small, (5,5) large, (100,100): the (5,5) and (100,100) ones remain
C4_Witness ==
    /\ Filtered
    /\ fl_min = 10
    /\ fl_corners = <<Quad(0, 0, 2), Quad(5, 5, 3), Quad(100, 100, 2)>>
    /\ fl_out.corners = <<Quad(5, 5, 3), Quad(100, 100, 2)>>
    /\ fl_out.ids = <<fl_ids[2], fl_ids[3]>>

(***************************************************************************)
(* Parameter planning: C5                                                  *)
(***************************************************************************)
NonPositive == pl_width <= 0 \/ pl_height <= 0

\* C5 as stated: with a non-positive width or height the call fails with
\* InvalidFrame and returns no parameter set.
C5_NonPositiveFails ==
    (pl_pc = "done" /\ NonPositive) => pl_out.error = "InvalidFrame"

\* C5 amended: calculate_detection_parameters validates nothing: for every
\* width and height it returns a parameter set without an error, and with a
\* non-positive width or height that set holds the floor values (window 7 to
\* 21 in steps of 2, minDistanceToBorder 3).
C5_NoValidation ==
    pl_pc = "done" =>
        /\ pl_out.error = "none"
        /\ NonPositive =>
              /\ pl_out.adaptiveThreshWinSizeMin = 7
              /\ pl_out.adaptiveThreshWinSizeMax = 21
              /\ pl_out.adaptiveThreshWinSizeStep = 2
              /\ pl_out.minDistanceToBorder = 3

C5_Witness ==
    /\ pl_pc = "done"
    /\ pl_width = -150
    /\ pl_height = 0
    /\ pl_out.error = "none"
    /\ pl_out.adaptiveThreshWinSizeMin = 7

(***************************************************************************)
(* aruco_detector.main: C6, C9, C10                                        *)
(***************************************************************************)
MainEnded == mn_pc \in {"exit0", "exit1", "raised"}

\* C6: a run given a dictionary name outside the recognized set (on a source
\* that opens) always ends with the unknown-dictionary error, with no frame
\* processed, also on a source that yields no frames.
C6_UnknownDictionaryAtStartup ==
    ( /\ mn_args.dict # "None"
      /\ mn_args.dict \notin Range(ARUCO_DICTS)
      /\ mn_args.opens
      /\ MainEnded )
    => (mn_pc = "exit1" /\ mn_error = "Unknown dictionary" /\ mn_shown = 0)

\* position of a dictionary in the search order ARUCO_DICTS, counted from 0
Position(dict_name) ==
    (CHOOSE p \in 1..Len(ARUCO_DICTS) : ARUCO_DICTS[p] = dict_name) - 1

\* C9: in exhaustive mode every view draws and labels a dictionary's
\* detections in palette[p mod 6], p being the dictionary's position in the
\* search order, whichever other dictionaries hit in the frame.
C9_ColorByPosition ==
    (mn_args.dict = "None" /\ mn_args.test_all) =>
        /\ \A k \in 1..Len(mn_debug_frames) :
              mn_debug_frames[k].color = colors[(Position(mn_debug_frames[k].dict_name) % 6) + 1]
        /\ \A k \in 1..Len(mn_view.draws) :
              mn_view.draws[k].color = colors[(Position(mn_view.draws[k].dict_name) % 6) + 1]
        /\ \A k \in 1..Len(mn_view.labels) :
              mn_view.labels[k].color = colors[(Position(mn_view.labels[k].dict_name) % 6) + 1]

\* C10: in every valid CLI mode (a recognized --dict, --test-all, or neither)
\* no pass of the frame loop raises, every frame read is shown, and the loop
\* ends only by end-of-stream or the quit key.
C10_FrameLoopNeverRaises ==
    ( /\ mn_args.dict \in {"None"} \cup Range(ARUCO_DICTS)
      /\ mn_args.opens )
    => /\ mn_pc # "raised"
       /\ mn_pc # "exit1"
       /\ mn_pc \in {"loop", "exit0"} => mn_shown = mn_read

(***************************************************************************)
(* aruco_validator.process_video: C7, C8                                   *)
(***************************************************************************)
FrameBoundary == st_pc \in {"loop", "returned"}

MarkerCounts == [k \in 1..Len(st_frames) |-> Len(st_frames[k].markers_detected)]

\* C7: at every frame boundary, N frames with M accepted markers observed:
\* total_frames = N = number of records, total_markers_detected = M = sum of
\* the records' marker counts, frames_with_markers = number of frames with at
\* least one accepted marker (a frame with nothing decoded may come back from
\* the detector as an empty id array).
C7_SummaryExact ==
    FrameBoundary =>
        /\ st_summary.total_frames = Len(st_frames)
        /\ st_summary.total_frames = st_frame_number
        /\ st_summary.total_markers_detected = SumSeq(MarkerCounts)
        /\ st_summary.frames_with_markers =
              Cardinality({k \in 1..Len(st_frames) : MarkerCounts[k] >= 1})
        /\ st_summary.frames_with_markers <= st_summary.total_frames

\* the marker ids of all per-frame records
IdsSeen ==
    UNION { {st_frames[k].markers_detected[m].id :
                m \in 1..Len(st_frames[k].markers_detected)} : k \in 1..Len(st_frames) }

NoRepeats(s) == \A a, b \in 1..Len(s) : a # b => s[a] # s[b]

Ascending(s) == \A a, b \in 1..Len(s) : a < b => s[a] < s[b]

\* C8 as stated: the returned summary lists the unique ids seen in ascending
\* order, none repeated, none missing.
C8_IdsSortedUnique ==
    st_pc = "returned" =>
        /\ Ascending(st_ids_list)
        /\ NoRepeats(st_ids_list)
        /\ Range(st_ids_list) = IdsSeen

\* C8 amended: the returned summary lists the unique ids seen, none repeated,
\* none missing and none unseen, in the set's iteration order (not sorted).
C8_IdsUniqueComplete ==
    st_pc = "returned" =>
        /\ NoRepeats(st_ids_list)
        /\ Range(st_ids_list) = IdsSeen
        /\ Len(st_ids_list) = Cardinality(IdsSeen)

\* ids 8 and 1 seen in one frame and id 1 again in another, listed as [8, 1]
C8_Witness ==
    /\ st_pc = "returned"
    /\ Len(st_frames) >= 2
    /\ IdsSeen = {1, 8}
    /\ st_ids_list = <<8, 1>>

(***************************************************************************)
(* Parameter planning: C11                                                 *)
(***************************************************************************)
PositiveDimensions == {d \in Dimensions : d > 0}

\* C11: planning is monotone in resolution: the planned frame has
\* minDistanceToBorder = max(3, floor(min(w,h) * 0.0006)) and
\* adaptiveThreshWinSizeMin = max(7, floor(min(w,h) * 0.01)); every frame with
\* positive dimensions and a shorter side at least as long is planned with
\* values at least as large (100x100 against 1000x1000 included); and every
\* planned set has adaptiveThreshWinSizeMin < adaptiveThreshWinSizeMax.
C11_PlanMonotone ==
    pl_pc = "done" =>
        /\ pl_out.adaptiveThreshWinSizeMin < pl_out.adaptiveThreshWinSizeMax
        /\ (pl_width > 0 /\ pl_height > 0) =>
              LET m == IF pl_width <= pl_height THEN pl_width ELSE pl_height
                  border == (m * 6) \div 10000
                  window == m \div 100
              IN /\ pl_out.minDistanceToBorder = (IF border > 3 THEN border ELSE 3)
                 /\ pl_out.adaptiveThreshWinSizeMin = (IF window > 7 THEN window ELSE 7)
                 /\ \A w2, h2 \in PositiveDimensions :
                       LET m2 == IF w2 <= h2 THEN w2 ELSE h2
                           larger == calculate_detection_parameters(w2, h2)
                       IN m <= m2 =>
                             /\ larger.minDistanceToBorder >= pl_out.minDistanceToBorder
                             /\ larger.adaptiveThreshWinSizeMin
                                   >= pl_out.adaptiveThreshWinSizeMin

\* 100x100 planned (window 7, border 3); 1000x1000 plans window 10 and
\* 8000x8000 plans border 4, both at least as large
C11_Witness ==
    /\ pl_pc = "done"
    /\ pl_width = 100
    /\ pl_height = 100
    /\ pl_out.adaptiveThreshWinSizeMin = 7
    /\ pl_out.minDistanceToBorder = 3
    /\ calculate_detection_parameters(1000, 1000).adaptiveThreshWinSizeMin = 10
    /\ calculate_detection_parameters(8000, 8000).minDistanceToBorder = 4

(***************************************************************************)
(* Duplicate suppression: C12                                              *)
(***************************************************************************)
\* strictly increasing maps from the positions of s into 1..n
Embeddings(s, n) ==
    {f \in [1..Len(s) -> 1..n] : \A a, b \in 1..Len(s) : a < b => f[a] < f[b]}

\* C12: for every input of filter_duplicate_detections no two candidates of
\* the output have centroids closer than min_distance; the output is an
\* order-preserving subsequence of the input (the candidates the keep mask
\* marks), each kept id still paired with its own corners; and filtering the
\* output again removes nothing.  With ids None the input comes back as is.
C12_OutputSeparatedSubsequence ==
    fl_pc = "done" =>
        /\ fl_ids = None => (fl_out.corners = fl_corners /\ fl_out.ids = None)
        /\ fl_ids # None =>
              /\ Len(fl_out.corners) = Len(fl_out.ids)
              /\ \A a, b \in 1..Len(fl_out.corners) :
                    a < b => ~DistLess(fl_out.corners[a], fl_out.corners[b], fl_min)
              /\ \E f \in Embeddings(fl_out.ids, Len(fl_ids)) :
                    /\ {f[k] : k \in 1..Len(fl_out.ids)}
                          = {i \in 1..Len(fl_ids) : fl_keep[i]}
                    /\ \A k \in 1..Len(fl_out.ids) :
                          /\ fl_out.corners[k] = fl_corners[f[k]]
                          /\ fl_out.ids[k] = fl_ids[f[k]]
              /\ filter_duplicate_detections(fl_out.corners, fl_out.ids, fl_min)
                    = [corners |-> fl_out.corners, ids |-> fl_out.ids]

\* three candidates with three different ids, the first one suppressed by the
\* second: the second and third come out, in order, with their own ids
C12_Witness ==
    /\ Filtered
    /\ fl_min = 10
    /\ fl_corners = <<Quad(0, 0, 2), Quad(5, 5, 3), Quad(100, 100, 2)>>
    /\ fl_ids = <<1, 2, 3>>
    /\ fl_keep = <<FALSE, TRUE, TRUE>>
    /\ fl_out.ids = <<2, 3>>
    /\ fl_out.corners = <<Quad(5, 5, 3), Quad(100, 100, 2)>>

(***************************************************************************)
(* Duplicate suppression inside the dictionary search: C13.  The           *)
(* specification runs the filter on its own inputs or the two searches on  *)
(* theirs.                                                                 *)
(***************************************************************************)
InitSuppression == InitFilter \/ InitSearch

NextSuppression == NextFilter \/ NextSearch

SpecSuppression == InitSuppression /\ [][NextSuppression]_vars

\* the primitive detector returned at least one accepted candidate
RawHit(d) == se_frame.raw[d].ids # None /\ Len(se_frame.raw[d].ids) > 0

RawHitDicts == SelectSeq(se_dicts, RawHit)

\* C13: suppression never empties a non-empty accepted set: at least one
\* candidate survives filter_duplicate_detections, chains of discards
\* included, so find_first_marker returns the first dictionary with a raw
\* detection (None only if there is none) and test_all_dictionaries returns
\* exactly the dictionaries with a raw detection.
C13_SuppressionNeverEmpties ==
    /\ (Filtered /\ Len(fl_ids) >= 1) =>
          /\ \E i \in 1..Len(fl_ids) : fl_keep[i]
          /\ Len(fl_out.ids) >= 1
          /\ Len(fl_out.corners) >= 1
    /\ se_pc = "first" =>
          /\ (se_out.dict_name = "None") <=> (RawHitDicts = <<>>)
          /\ RawHitDicts # <<>> =>
                /\ se_out.dict_name = RawHitDicts[1]
                /\ Len(se_out.ids) >= 1
    /\ se_pc = "all" =>
          /\ Len(se_out.results) = Len(RawHitDicts)
          /\ \A k \in 1..Len(se_out.results) :
                /\ se_out.results[k].dict_name = RawHitDicts[k]
                /\ Len(se_out.results[k].ids) >= 1

\* a chain: the 1st candidate is discarded by the 2nd (larger), the 2nd by the
\* 3rd (equal perimeter), and the 3rd survives
C13_Witness ==
    /\ Filtered
    /\ fl_min = 10
    /\ fl_corners = <<Quad(0, 0, 2), Quad(5, 5, 3), Quad(10, 10, 3)>>
    /\ ~Close(1, 3)
    /\ fl_keep = <<FALSE, FALSE, TRUE>>
    /\ fl_out.corners = <<Quad(10, 10, 3)>>

====
